---------------------------- MODULE Spec2Model ----------------------------
(***************************************************************************)
(* A model of the TinyFrame engine of tinyframe-js (src/unnamed/part_002): *)
(* frame composition and chunked transmission, the byte-wise parser with   *)
(* its checksum stages, the three listener tables and tick().              *)
(*                                                                         *)
(* JavaScript numbers.  The code mixes plain number arithmetic with the    *)
(* 32-bit operators <<, | and >>>.  A number is kept as two 16-bit limbs,  *)
(* [hi, lo] standing for hi * 65536 + lo with lo in 0..65535; hi is        *)
(* negative exactly for a negative number.  ToInt32 and ToUint32 are the   *)
(* conversions the bitwise operators apply, so the sign a 4-byte field     *)
(* picks up in (x << 8) | byte is part of the model.                       *)
(***************************************************************************)
EXTENDS Integers, Sequences, FiniteSets, TLC

\* checksum: a strategy name or Null.  A field that holds a number or null
\* (sofByte, parserTimeout, a listener's timeout) and an optional argument
\* hold None or Some(v).
Null == "null"
None == << >>
Some(v) == << v >>

(* ------------------------------ numbers ------------------------------ *)

Num(h, l) == [hi |-> h, lo |-> l]

\* a literal 0 <= n < 2^31
FromNat(n) == Num(n \div 65536, n % 65536)

Zero == Num(0, 0)

\* x >>> 0
ToUint32(x) == Num(x.hi % 65536, x.lo)

\* the ToInt32 conversion every operand of <<, | undergoes
ToInt32(x) ==
    LET h == x.hi % 65536
    IN  Num(IF h >= 32768 THEN h - 65536 ELSE h, x.lo)

\* (x << 8) | byte, byte in 0..255
ShlOr8(x, byte) ==
    LET h == x.hi % 65536
    IN  ToInt32(Num((h % 256) * 256 + (x.lo \div 256), (x.lo % 256) * 256 + byte))

\* x + 1 (the value nextID++ leaves behind)
Inc(x) == IF x.lo = 65535 THEN Num(x.hi + 1, 0) ELSE Num(x.hi, x.lo + 1)

RECURSIVE Pow2(_)
Pow2(k) == IF k = 0 THEN 1 ELSE 2 * Pow2(k - 1)

HasBit(n, k) == (n \div Pow2(k)) % 2 = 1

\* x | (1 << k), 0 <= k <= 31
OrBit(x, k) ==
    LET y == ToUint32(x)
    IN  ToInt32(IF k < 16
                THEN Num(y.hi, IF HasBit(y.lo, k) THEN y.lo ELSE y.lo + Pow2(k))
                ELSE Num(IF HasBit(y.hi, k - 16) THEN y.hi ELSE y.hi + Pow2(k - 16), y.lo))

\* the four bytes of x >>> 0, most significant first
Bytes4(x) ==
    LET y == ToUint32(x)
    IN  << y.hi \div 256, y.hi % 256, y.lo \div 256, y.lo % 256 >>

\* writeUIntBE: the byteLength low-order bytes of value >>> 0, big-endian
WriteUIntBE(value, byteLength) == SubSeq(Bytes4(value), 5 - byteLength, 4)

(* ------------------------- checksum strategies ------------------------ *)
(* The checksum module is not among the source files; the four strategies  *)
(* are modelled from their names: a byte-wise XOR and the reflected CRC-8   *)
(* (polynomial 0x8C), CRC-16 (0xA001) and CRC-32 (0xEDB88320, inverted).    *)
(* "none" is a strategy object of size 0, whose sum is 0.                   *)

\* F(v) with v evaluated once
Let(v, F(_)) == CHOOSE y \in { F(x) : x \in { v } } : TRUE

RECURSIVE BitXor(_, _)
BitXor(a, b) ==
    IF a = 0 THEN b
    ELSE IF b = 0 THEN a
    ELSE ((a + b) % 2) + 2 * BitXor(a \div 2, b \div 2)

Xor8 == [a \in 0..255 |-> [b \in 0..255 |-> BitXor(a, b)]]

Xor16(a, b) == Xor8[a \div 256][b \div 256] * 256 + Xor8[a % 256][b % 256]

NumXor(x, y) == Num(Xor16(x.hi, y.hi), Xor16(x.lo, y.lo))

\* one bit of a reflected CRC: shift right, xor the polynomial when a 1 fell out
CrcShift(reg, poly) ==
    Let(Num(reg.hi \div 2, (reg.lo \div 2) + 32768 * (reg.hi % 2)),
        LAMBDA sh : IF reg.lo % 2 = 1 THEN NumXor(sh, poly) ELSE sh)

RECURSIVE CrcBits(_, _, _)
CrcBits(reg, poly, n) ==
    IF n = 0 THEN reg
    ELSE Let(CrcShift(reg, poly), LAMBDA r : CrcBits(r, poly, n - 1))

Crc8Table  == [i \in 0..255 |-> CrcBits(Num(0, i), Num(0, 140), 8)]
Crc16Table == [i \in 0..255 |-> CrcBits(Num(0, i), Num(0, 40961), 8)]
Crc32Table == [i \in 0..255 |-> CrcBits(Num(0, i), Num(60856, 33568), 8)]

\* one byte of a table-driven reflected CRC
CrcByte(reg, table, byte) ==
    NumXor(table[Xor8[reg.lo % 256][byte]],
           Num(reg.hi \div 256, (reg.lo \div 256) + 256 * (reg.hi % 256)))

\* the bytes in order: those of the first half, then those of the second
RECURSIVE CrcBytes(_, _, _)
CrcBytes(reg, table, bytes) ==
    IF bytes = << >> THEN reg
    ELSE IF Len(bytes) = 1 THEN CrcByte(reg, table, bytes[1])
    ELSE CHOOSE y \in { CrcBytes(r, table, SubSeq(bytes, Len(bytes) \div 2 + 1,
                                                  Len(bytes))) :
                            r \in { CrcBytes(reg, table, SubSeq(bytes, 1,
                                                               Len(bytes) \div 2)) } } : TRUE

RECURSIVE XorBytes(_, _)
XorBytes(acc, bytes) ==
    IF bytes = << >> THEN acc
    ELSE IF Len(bytes) = 1 THEN Xor8[acc][bytes[1]]
    ELSE CHOOSE y \in { XorBytes(r, SubSeq(bytes, Len(bytes) \div 2 + 1, Len(bytes))) :
                            r \in { XorBytes(acc, SubSeq(bytes, 1,
                                                         Len(bytes) \div 2)) } } : TRUE

Strategies == {"xor", "crc8", "crc16", "crc32"}

\* checksum.size
Size(c) ==
    CASE c = "xor" -> 1
      [] c = "crc8" -> 1
      [] c = "crc16" -> 2
      [] c = "crc32" -> 4
      [] c = "none" -> 0

\* checksum.sum(bytes): an unsigned integer of Size(c) bytes
Sum(c, bytes) ==
    CASE c = "xor" -> Num(0, XorBytes(0, bytes))
      [] c = "crc8" -> CrcBytes(Zero, Crc8Table, bytes)
      [] c = "crc16" -> CrcBytes(Zero, Crc16Table, bytes)
      [] c = "crc32" -> NumXor(CrcBytes(Num(65535, 65535), Crc32Table, bytes),
                               Num(65535, 65535))
      [] c = "none" -> Zero

(* ------------------------------ Message ------------------------------ *)

\* new Message(type, data)
Message(type, data) ==
    [frameID |-> Zero, type |-> type, data |-> data, isResponse |-> FALSE]

\* message.createResponse(data)
createResponse(this, data) ==
    [Message(this.type, data) EXCEPT !.frameID = this.frameID, !.isResponse = TRUE]

(* ------------------------------ TinyFrame ----------------------------- *)

\* new TinyFrame(peer); write names where written chunks go: "wire" collects
\* them, the name of an engine feeds them to that engine's accept
TinyFrame(peer) ==
    [ peer |-> peer, nextID |-> Zero, state |-> "sof",
      parserTimeoutTicks |-> 0, parserTimeout |-> None, sofByte |-> None,
      chunkSize |-> 1024, checksum |-> "xor",
      idSize |-> 4, lenSize |-> 4, typeSize |-> 4,
      partLen |-> 0, currentID |-> Zero, len |-> Zero, currentType |-> Zero,
      cksum |-> Zero, data |-> << >>,
      idListeners |-> << >>, typeListeners |-> << >>, genericListeners |-> << >>,
      write |-> "wire" ]

resetParser(E) == [E EXCEPT !.state = "sof", !.partLen = 0]

addIDListener(E, id, callback, timeout) ==
    [E EXCEPT !.idListeners =
        Append(@, [id |-> id, callback |-> callback,
                   timeout |-> timeout, maxTimeout |-> timeout])]

addTypeListener(E, type, callback) ==
    [E EXCEPT !.typeListeners = Append(@, [type |-> type, callback |-> callback])]

addGenericListener(E, callback) ==
    [E EXCEPT !.genericListeners = Append(@, callback)]

renewIDListener(E, callback) ==
    [E EXCEPT !.idListeners =
        [i \in DOMAIN E.idListeners |->
            IF E.idListeners[i].callback = callback
            THEN [E.idListeners[i] EXCEPT !.timeout = E.idListeners[i].maxTimeout]
            ELSE E.idListeners[i]]]

\* array.splice(index, 1) for an index >= 0 (0-based)
Splice1(arr, index) ==
    IF index >= Len(arr) THEN arr
    ELSE SubSeq(arr, 1, index) \o SubSeq(arr, index + 2, Len(arr))

\* array.findIndex(test): the 0-based index of the first entry passing, or -1
FindIndex(arr, Test(_)) ==
    LET passing == { i \in DOMAIN arr : Test(arr[i]) }
    IN  IF passing = {} THEN -1
        ELSE (CHOOSE i \in passing : \A j \in passing : i <= j) - 1

removeIDListener(E, callback) ==
    LET index == FindIndex(E.idListeners, LAMBDA listener : listener.callback = callback)
    IN  IF index >= 0 THEN [E EXCEPT !.idListeners = Splice1(@, index)] ELSE E

removeTypeListener(E, callback) ==
    LET index == FindIndex(E.typeListeners, LAMBDA listener : listener.callback = callback)
    IN  IF index >= 0 THEN [E EXCEPT !.typeListeners = Splice1(@, index)] ELSE E

removeGenericListener(E, callback) ==
    LET index == FindIndex(E.genericListeners, LAMBDA listener : listener = callback)
    IN  IF index >= 0 THEN [E EXCEPT !.genericListeners = Splice1(@, index)] ELSE E

\* the header composeHead returns, the engine after the ID allocation and the
\* message with the stamped frameID
composeHead(E, message) ==
    Let(IF message.isResponse THEN message.frameID ELSE E.nextID, LAMBDA id0 :
    Let(IF E.peer = 1 THEN OrBit(id0, E.idSize * 8 - 1) ELSE id0, LAMBDA id :
    Let((IF E.sofByte # None THEN << E.sofByte[1] >> ELSE << >>)
            \o WriteUIntBE(id, E.idSize)
            \o WriteUIntBE(FromNat(Len(message.data)), E.lenSize)
            \o WriteUIntBE(message.type, E.typeSize), LAMBDA fields :
        [E |-> IF message.isResponse THEN E ELSE [E EXCEPT !.nextID = Inc(@)],
         m |-> [message EXCEPT !.frameID = id],
         buffer |-> IF E.checksum # Null
                    THEN fields \o WriteUIntBE(Sum(E.checksum, fields), Size(E.checksum))
                    ELSE fields])))

\* a chunking loop that stops before a last chunk shorter than chunkSize
RECURSIVE ChunksDroppingTail(_, _)
ChunksDroppingTail(buffer, chunkSize) ==
    IF Len(buffer) < chunkSize THEN << >>
    ELSE << SubSeq(buffer, 1, chunkSize) >>
         \o ChunksDroppingTail(SubSeq(buffer, chunkSize + 1, Len(buffer)), chunkSize)

\* the chunks sendFrame's while loop hands to write
RECURSIVE Chunks(_, _)
Chunks(buffer, chunkSize) ==
    IF Len(buffer) = 0 THEN << >>
    ELSE IF Len(buffer) <= chunkSize THEN << buffer >>
    ELSE << SubSeq(buffer, 1, chunkSize) >>
         \o Chunks(SubSeq(buffer, chunkSize + 1, Len(buffer)), chunkSize)

beginFrame(E) ==
    [E EXCEPT !.state = "id", !.partLen = 0, !.currentID = Zero, !.len = Zero,
              !.currentType = Zero, !.cksum = Zero, !.data = << >>]

\* the index keys tick() collects, then its splice loop
RECURSIVE RemoveKeys(_, _, _)
RemoveKeys(listeners, removeKeys, offset) ==
    IF removeKeys = << >> THEN listeners
    ELSE RemoveKeys(Splice1(listeners, Head(removeKeys) + offset),
                    Tail(removeKeys), offset - 1)

RECURSIVE ExpiredKeys(_, _)
ExpiredKeys(listeners, i) ==
    IF i > Len(listeners) THEN << >>
    ELSE (IF listeners[i].timeout # None /\ listeners[i].timeout[1] <= 0
          THEN << i - 1 >> ELSE << >>) \o ExpiredKeys(listeners, i + 1)

\* a tick() that also enforces the parse timeout itself, as acceptByte does
tickResetting(E) ==
    Let([i \in DOMAIN E.idListeners |->
            IF E.idListeners[i].timeout # None
            THEN [E.idListeners[i] EXCEPT !.timeout = Some(@[1] - 1)]
            ELSE E.idListeners[i]], LAMBDA counted :
        [resetParser(E) EXCEPT
                  !.parserTimeoutTicks = @ + 1,
                  !.idListeners = RemoveKeys(counted, ExpiredKeys(counted, 1), 0)])

tick(E) ==
    Let([i \in DOMAIN E.idListeners |->
            IF E.idListeners[i].timeout # None
            THEN [E.idListeners[i] EXCEPT !.timeout = Some(@[1] - 1)]
            ELSE E.idListeners[i]], LAMBDA counted :
        [E EXCEPT !.parserTimeoutTicks = @ + 1,
                  !.idListeners = RemoveKeys(counted, ExpiredKeys(counted, 1), 0)])

(* --------------------- the synchronous call graph --------------------- *)
(* Sending, the write sink, accept and the listeners call one another on    *)
(* one stack.  A world w holds every engine (w.eng), the chunks collected   *)
(* by "wire" sinks (w.wire) and the log of what the collaborators saw       *)
(* (w.log): claimTx, write, releaseTx, and each listener invocation.        *)
(* A callback is [name, does]; does names what the listener's body does:    *)
(* "record" keeps the message, "respond" answers it with frame.respond,     *)
(* "forward" sends its payload on in a new frame with frame.send, "remove", *)
(* "removeSelf" and "add" change the listener tables of the engine.         *)

Logged(w, entry) == [w EXCEPT !.log = Append(@, entry)]

\* the payload a responding listener answers with (test: Uint8Array.from([0xFF]))
ResponseData == << 255 >>

RECURSIVE sendFrame(_, _, _, _, _)
RECURSIVE writeAll(_, _, _)
RECURSIVE accept(_, _, _)
RECURSIVE acceptEach(_, _, _)
RECURSIVE acceptByte(_, _, _)
RECURSIVE handleReceived(_, _)
RECURSIVE callListeners(_, _, _, _, _)
RECURSIVE invoke(_, _, _, _)

(* The result of a call that goes down the stack is bound once, as the only  *)
(* element of a set:  CHOOSE y \in { F(x) : x \in { call } } : TRUE.         *)

\* frame.write(chunk)
write(w, e, chunk) ==
    IF w.eng[e].write = "wire"
    THEN [Logged(w, [ev |-> "write", eng |-> e, chunk |-> chunk])
             EXCEPT !.wire = Append(@, chunk)]
    ELSE accept(Logged(w, [ev |-> "write", eng |-> e, chunk |-> chunk]),
                w.eng[e].write, chunk)

\* write on each chunk in order (the first half, then the second)
writeAll(w, e, chunks) ==
    IF chunks = << >> THEN w
    ELSE IF Len(chunks) = 1 THEN write(w, e, chunks[1])
    ELSE CHOOSE y \in { writeAll(w1, e, SubSeq(chunks, Len(chunks) \div 2 + 1,
                                                Len(chunks))) :
                            w1 \in { writeAll(w, e, SubSeq(chunks, 1,
                                                            Len(chunks) \div 2)) } } : TRUE

\* the payload with its trailing checksum, as sendFrame appends it
Body(E, data) ==
    IF E.checksum # Null /\ Len(data) # 0
    THEN data \o WriteUIntBE(Sum(E.checksum, data), Size(E.checksum))
    ELSE data

\* sendFrame up to its write loop: the header composed, the listener
\* registered, the transmitter claimed and the chunks cut
Composed(w, e, message, callback, timeout) ==
    Let(composeHead(w.eng[e], message), LAMBDA head :
    Let(IF callback # None
        THEN addIDListener(head.E, head.m.frameID, callback[1], timeout)
        ELSE head.E, LAMBDA E1 :
        [w |-> [Logged(w, [ev |-> "claimTx", eng |-> e]) EXCEPT !.eng[e] = E1],
         m |-> head.m,
         chunks |-> Chunks(head.buffer \o Body(E1, head.m.data), E1.chunkSize)]))

\* a sendFrame that registers the listener after its write loop
sendFrameRegisteringLast(w, e, message, callback, timeout) ==
    CHOOSE y \in {
        CHOOSE z \in { [w |-> Logged([w2 EXCEPT !.eng[e] =
                                         IF callback # None
                                         THEN addIDListener(@, c.m.frameID, callback[1],
                                                            timeout)
                                         ELSE @],
                                     [ev |-> "releaseTx", eng |-> e]),
                        m |-> c.m] :
                          w2 \in { writeAll(c.w, e, c.chunks) } } : TRUE :
            c \in { Composed(w, e, message, None, timeout) } } : TRUE

\* sendFrame(message, callback?, timeout): the world afterwards and the
\* caller's message object as sendFrame leaves it
sendFrame(w, e, message, callback, timeout) ==
    CHOOSE y \in {
        CHOOSE z \in { [w |-> Logged(w2, [ev |-> "releaseTx", eng |-> e]), m |-> c.m] :
                          w2 \in { writeAll(c.w, e, c.chunks) } } : TRUE :
            c \in { Composed(w, e, message, callback, timeout) } } : TRUE

send(w, e, message) == sendFrame(w, e, message, None, None)

query(w, e, message, listener, timeout) ==
    sendFrame(w, e, message, Some(listener), timeout)

respond(w, e, message) ==
    CHOOSE y \in { [w |-> r.w, m |-> [r.m EXCEPT !.isResponse = FALSE]] :
                      r \in { send(w, e, [message EXCEPT !.isResponse = TRUE]) } } : TRUE

\* acceptByte on each byte in order (the bytes of the first half, then those
\* of the second, which keeps the evaluation shallow)
acceptEach(w, e, buffer) ==
    IF buffer = << >> THEN w
    ELSE IF Len(buffer) = 1 THEN acceptByte(w, e, buffer[1])
    ELSE CHOOSE y \in { acceptEach(w1, e, SubSeq(buffer, Len(buffer) \div 2 + 1,
                                                  Len(buffer))) :
                            w1 \in { acceptEach(w, e, SubSeq(buffer, 1,
                                                              Len(buffer) \div 2)) } } : TRUE

\* an accept that starts every buffer with a fresh parser
acceptFramed(w, e, buffer) ==
    IF buffer = << >> THEN w
    ELSE acceptEach([w EXCEPT !.eng[e] = resetParser(@)], e, buffer)

\* accept(buffer): acceptByte on each byte in order
accept(w, e, buffer) ==
    IF buffer = << >> THEN w
    ELSE IF Len(buffer) = 1 THEN acceptByte(w, e, buffer[1])
    ELSE CHOOSE y \in { acceptByte(w1, e, buffer[Len(buffer)]) :
                            w1 \in { acceptEach(w, e, SubSeq(buffer, 1,
                                                              Len(buffer) - 1)) } } : TRUE

\* handleReceived() followed by resetParser(), as every dispatch site does
Dispatch(w, e, E) ==
    CHOOSE y \in { [w1 EXCEPT !.eng[e] = resetParser(@)] :
                      w1 \in { handleReceived([w EXCEPT !.eng[e] = E], e) } } : TRUE

\* the checks acceptByte makes before its switch: the stall timeout, and the
\* start of a frame when no start byte is configured
Entered(E0) ==
    Let(IF E0.parserTimeout # None /\ E0.parserTimeoutTicks > E0.parserTimeout[1]
        THEN resetParser(E0) ELSE E0, LAMBDA E1 :
        IF E1.state = "sof" /\ E1.sofByte = None THEN beginFrame(E1) ELSE E1)

\* a comparison that looks at the last received checksum byte only
cksumMatchesLastByte(E, ck) ==
    E.checksum # Null /\ Sum(E.checksum, E.data).lo % 256 = ck.lo % 256

\* the comparison both checksum states make on their last byte: a strategy is
\* set and its sum over the buffered bytes is the received value
cksumMatches(E, ck) == E.checksum # Null /\ Sum(E.checksum, E.data) = ck

\* the size the checksum states count up to: this.checksum?.size ?? 0
CksumSize(E) == IF E.checksum # Null THEN Size(E.checksum) ELSE 0

\* ++this.partLen
Counted(E) == E.partLen + 1

\* ((this.cksum << 8) | byte) >>> 0
Shifted(E, byte) == ToUint32(ShlOr8(E.cksum, byte))

\* the switch of acceptByte on the parser state, for an engine past the
\* checks before it
Switch(w, e, E, byte) ==
    CASE E.state = "sof" ->
           IF E.sofByte # None /\ byte = E.sofByte[1]
           THEN [w EXCEPT !.eng[e] = [beginFrame(E) EXCEPT !.data = << byte >>]]
           ELSE [w EXCEPT !.eng[e] = E]
      [] E.state = "id" ->
           [w EXCEPT !.eng[e] =
                [E EXCEPT !.data = Append(@, byte),
                          !.currentID = ShlOr8(@, byte),
                          !.state = IF Counted(E) = E.idSize THEN "len" ELSE @,
                          !.partLen = IF Counted(E) = E.idSize THEN 0 ELSE Counted(E)]]
      [] E.state = "len" ->
           [w EXCEPT !.eng[e] =
                [E EXCEPT !.data = Append(@, byte),
                          !.len = ShlOr8(@, byte),
                          !.state = IF Counted(E) = E.lenSize THEN "type" ELSE @,
                          !.partLen = IF Counted(E) = E.lenSize THEN 0 ELSE Counted(E)]]
      [] E.state = "type" ->
           [w EXCEPT !.eng[e] =
                [E EXCEPT !.data = Append(@, byte),
                          !.currentType = ShlOr8(@, byte),
                          !.state = IF Counted(E) = E.typeSize
                                    THEN (IF E.checksum # Null
                                          THEN "headcksum" ELSE "data")
                                    ELSE @,
                          !.partLen = IF Counted(E) = E.typeSize THEN 0 ELSE Counted(E)]]
      [] E.state = "headcksum" ->
           IF Counted(E) # CksumSize(E)
           THEN [w EXCEPT !.eng[e] = [E EXCEPT !.cksum = Shifted(E, byte), !.partLen = Counted(E)]]
           ELSE IF ~cksumMatches(E, Shifted(E, byte))
           THEN [w EXCEPT !.eng[e] =
                    resetParser([E EXCEPT !.cksum = Shifted(E, byte), !.partLen = Counted(E)])]
           ELSE IF E.len = Zero
           THEN Dispatch(w, e, [E EXCEPT !.cksum = Shifted(E, byte), !.partLen = Counted(E),
                                         !.data = Append(@, byte)])
           ELSE [w EXCEPT !.eng[e] =
                    [E EXCEPT !.cksum = Shifted(E, byte), !.partLen = 0, !.data = << >>,
                              !.state = "data"]]
      [] E.state = "data" ->
           IF FromNat(Counted(E)) # E.len
           THEN [w EXCEPT !.eng[e] =
                    [E EXCEPT !.data = Append(@, byte), !.partLen = Counted(E)]]
           ELSE IF E.checksum = Null
           THEN Dispatch(w, e, [E EXCEPT !.data = Append(@, byte), !.partLen = Counted(E)])
           ELSE [w EXCEPT !.eng[e] =
                    [E EXCEPT !.data = Append(@, byte), !.state = "datacksum",
                              !.partLen = 0, !.cksum = Zero]]
      [] E.state = "datacksum" ->
           IF Counted(E) # CksumSize(E)
           THEN [w EXCEPT !.eng[e] = [E EXCEPT !.cksum = Shifted(E, byte), !.partLen = Counted(E)]]
           ELSE IF cksumMatches(E, Shifted(E, byte))
           THEN Dispatch(w, e, [E EXCEPT !.cksum = Shifted(E, byte), !.partLen = Counted(E)])
           ELSE [w EXCEPT !.eng[e] =
                    resetParser([E EXCEPT !.cksum = Shifted(E, byte), !.partLen = Counted(E)])]

acceptByte(w, e, byte) ==
    CHOOSE y \in { Switch(w, e, E, byte) : E \in { Entered(w.eng[e]) } } : TRUE

\* whether an entry of a listener table is for this message
Matches(table, l, message) ==
    CASE table = "id" -> l.id = message.frameID
      [] table = "type" -> l.type = message.type
      [] table = "generic" -> TRUE

\* one of handleReceived's three loops over a snapshot of a table
callListeners(w, e, snapshot, table, message) ==
    IF snapshot = << >> THEN w
    ELSE IF ~Matches(table, Head(snapshot), message)
    THEN callListeners(w, e, Tail(snapshot), table, message)
    ELSE CHOOSE y \in { callListeners(w1, e, Tail(snapshot), table, message) :
                            w1 \in { invoke(w, e,
                                            IF table = "generic" THEN Head(snapshot)
                                            ELSE Head(snapshot).callback,
                                            message) } } : TRUE

\* new Message(this.currentType, this.data) with frameID = this.currentID
Received(E) == [Message(E.currentType, E.data) EXCEPT !.frameID = E.currentID]

\* the table of an engine, by name
TableOf(E, table) ==
    CASE table = "id" -> E.idListeners
      [] table = "type" -> E.typeListeners
      [] table = "generic" -> E.genericListeners

\* a loop over the table itself, by index, instead of over a snapshot
RECURSIVE callListenersLive(_, _, _, _, _)
callListenersLive(w, e, i, table, message) ==
    IF i > Len(TableOf(w.eng[e], table)) THEN w
    ELSE IF ~Matches(table, TableOf(w.eng[e], table)[i], message)
    THEN callListenersLive(w, e, i + 1, table, message)
    ELSE CHOOSE y \in { callListenersLive(w1, e, i + 1, table, message) :
                            w1 \in { invoke(w, e,
                                            IF table = "generic"
                                            THEN TableOf(w.eng[e], table)[i]
                                            ELSE TableOf(w.eng[e], table)[i].callback,
                                            message) } } : TRUE

handleReceivedLive(w, e) ==
    CHOOSE y \in {
        CHOOSE z \in { callListenersLive(w2, e, 1, "generic", Received(w.eng[e])) :
                          w2 \in { callListenersLive(w1, e, 1, "type",
                                                     Received(w.eng[e])) } } : TRUE :
            w1 \in { callListenersLive(w, e, 1, "id", Received(w.eng[e])) } } : TRUE

handleReceived(w, e) ==
    CHOOSE y \in {
        CHOOSE z \in { callListeners(w2, e, w2.eng[e].genericListeners, "generic",
                                     Received(w.eng[e])) :
                          w2 \in { callListeners(w1, e, w1.eng[e].typeListeners, "type",
                                                 Received(w.eng[e])) } } : TRUE :
            w1 \in { callListeners(w, e, w.eng[e].idListeners, "id",
                                   Received(w.eng[e])) } } : TRUE

\* the type of the frame a forwarding listener sends
ForwardType == FromNat(35)

\* frame.add*Listener of a recording callback, for the ID or type of message
Added(E, table, callback, message) ==
    CASE table = "id" -> addIDListener(E, message.frameID, callback, None)
      [] table = "type" -> addTypeListener(E, message.type, callback)
      [] table = "generic" -> addGenericListener(E, callback)

\* frame.remove*Listener(callback)
Removed(E, table, callback) ==
    CASE table = "id" -> removeIDListener(E, callback)
      [] table = "type" -> removeTypeListener(E, callback)
      [] table = "generic" -> removeGenericListener(E, callback)

\* what the body of a listener does to the engine it is called with: "remove"
\* removes the callback cb.victim from the table cb.table, "removeSelf" the
\* listener itself, "add" registers a new recording callback named cb.adds
Mutated(E, cb, message) ==
    CASE cb.does = "remove" -> Removed(E, cb.table, cb.victim)
      [] cb.does = "removeSelf" -> Removed(E, cb.table, cb)
      [] cb.does = "add" ->
           Added(E, cb.table, [name |-> cb.adds, does |-> "record"], message)
      [] OTHER -> E

\* listener.callback(frame, message)
invoke(w, e, cb, message) ==
    CASE cb.does = "record" ->
           Logged(w, [ev |-> "call", eng |-> e, cb |-> cb.name, msg |-> message])
      [] cb.does \in { "remove", "removeSelf", "add" } ->
           [Logged(w, [ev |-> "call", eng |-> e, cb |-> cb.name, msg |-> message])
               EXCEPT !.eng[e] = Mutated(@, cb, message)]
      [] cb.does = "forward" ->
           CHOOSE y \in { r.w :
                             r \in { send(Logged(w, [ev |-> "call", eng |-> e,
                                                     cb |-> cb.name, msg |-> message]),
                                          e, Message(ForwardType, message.data)) } } : TRUE
      [] cb.does = "respond" ->
           CHOOSE y \in { Logged(r.w, [ev |-> "responded", eng |-> e, req |-> message,
                                       resp |-> r.m]) :
                             r \in { respond(Logged(w, [ev |-> "call", eng |-> e,
                                                        cb |-> cb.name, msg |-> message]),
                                             e, createResponse(message, ResponseData)) } } : TRUE

(* ------------------------------- state ------------------------------- *)

VARIABLES
    eng,    \* the engines, by name
    wire,   \* chunks written to a "wire" sink and not yet delivered
    log,    \* what the hooks, the write sinks and the listeners have seen
    app     \* what the application around the engines holds

vars == << eng, wire, log, app >>

World == [eng |-> eng, wire |-> wire, log |-> log]

Becomes(w) == \E v \in { w } : eng' = v.eng /\ wire' = v.wire /\ log' = v.log

RECURSIVE Flat(_)
Flat(chunks) == IF chunks = << >> THEN << >> ELSE Head(chunks) \o Flat(Tail(chunks))

Record(name) == [name |-> name, does |-> "record"]

\* the listener invocations an engine has made, in order
Calls(e) == SelectSeq(log, LAMBDA l : l.ev = "call" /\ l.eng = e)

(* ------------------------------ bounds -------------------------------- *)

MaxFrames == 2
MaxCalls == 2
MaxListeners == 4
MaxPending == 3
MaxTicks == 2
MaxSends == 130

(* configurations and messages the scenarios draw from *)
Checksums  == Strategies \cup {Null}
FieldSizes == { << 1, 1, 1 >>, << 4, 4, 4 >> }
SofBytes   == { None, Some(1) }
Peers      == { 0, 1 }
ChunkSizes == { 3, 1024 }
Types      == { FromNat(34), Num(32768, 0) }       \* 0x22, 0x80000000
Payloads   == { << >>, << 7 >>, << 222, 173 >> }

Configs == [checksum : Checksums, sizes : FieldSizes, sofByte : SofBytes,
            peer : Peers, chunkSize : ChunkSizes]

Configured(E, cfg) ==
    [E EXCEPT !.checksum = cfg.checksum, !.sofByte = cfg.sofByte,
              !.idSize = cfg.sizes[1], !.lenSize = cfg.sizes[2],
              !.typeSize = cfg.sizes[3], !.chunkSize = cfg.chunkSize]

\* value is an unsigned integer that fits a field of size bytes
FitsField(value, size) ==
    /\ value.hi >= 0
    /\ \/ size = 4
       \/ size = 1 /\ value.hi = 0 /\ value.lo < 256

(* --------------- Spec: tx sends, the wire delivers to rx --------------- *)

Wired(cfgs) ==
    \E cfg \in cfgs :
        /\ eng = [tx |-> Configured(TinyFrame(cfg.peer), cfg),
                  rx |-> addGenericListener(Configured(TinyFrame(cfg.peer), cfg),
                                            Record("generic"))]
        /\ wire = << >>
        /\ log = << >>
        /\ app = [sent |-> << >>, fed |-> 0, flipped |-> None]

Init == Wired(Configs)

\* tx.send(new Message(type, data)); the application keeps the message object
Send(type, data) ==
    /\ Len(app.sent) < MaxFrames
    /\ wire = << >>
    /\ FitsField(type, eng.tx.typeSize)
    /\ \E r \in { send(World, "tx", Message(type, data)) } :
           /\ Becomes(r.w)
           /\ app' = [app EXCEPT !.sent = Append(@, [m |-> r.m, frame |-> Flat(r.w.wire),
                                                    at |-> app.fed])]

\* the transport hands the next chunk to rx.accept
Deliver ==
    /\ wire # << >>
    /\ Becomes(accept([World EXCEPT !.wire = Tail(wire)], "rx", Head(wire)))
    /\ app' = [app EXCEPT !.fed = @ + Len(Head(wire))]

\* the transport hands the next byte to rx.acceptByte
DeliverByte ==
    /\ wire # << >>
    /\ LET rest == IF Len(Head(wire)) = 1 THEN Tail(wire)
                   ELSE << Tail(Head(wire)) >> \o Tail(wire)
       IN  Becomes(acceptByte([World EXCEPT !.wire = rest], "rx", Head(Head(wire))))
    /\ app' = [app EXCEPT !.fed = @ + 1]

Next ==
    \/ \E type \in Types, data \in Payloads : Send(type, data)
    \/ Deliver
    \/ DeliverByte

Spec == Init /\ [][Next]_vars

(* ------- SpecNoise: the wire changes one byte of the first frame ------- *)

NoisyConfigs == { cfg \in Configs : cfg.checksum # Null /\ cfg.chunkSize = 1024
                                     /\ cfg.peer = 1 }
NoisyPayloads == { << >>, << 7 >>, << 0, 0, 0, 0 >> }
Damage == { 1, 255 }

InitNoise == Wired(NoisyConfigs)

RECURSIVE FlipAt(_, _, _)
FlipAt(chunks, i, mask) ==
    IF i <= Len(Head(chunks))
    THEN << [Head(chunks) EXCEPT ![i] = Xor8[@][mask]] >> \o Tail(chunks)
    ELSE << Head(chunks) >> \o FlipAt(Tail(chunks), i - Len(Head(chunks)), mask)

\* byte i of the first frame (not its start byte) arrives changed
Flip(i, mask) ==
    /\ app.flipped = None
    /\ Len(app.sent) = 1
    /\ app.fed = 0
    /\ i \in 1..Len(app.sent[1].frame)
    /\ eng.tx.sofByte # None => i > 1
    /\ wire' = FlipAt(wire, i, mask)
    /\ app' = [app EXCEPT !.flipped = Some(i)]
    /\ UNCHANGED << eng, log >>

NextNoise ==
    \/ \E type \in Types, data \in NoisyPayloads : Send(type, data)
    \/ \E i \in 1..32, mask \in Damage : Flip(i, mask)
    \/ DeliverByte

SpecNoise == InitNoise /\ [][NextNoise]_vars

(* ---- SpecQuery: a client and a server wired back to back (test 2) ----- *)

Responder == [name |-> "responder", does |-> "respond"]
ReplyNames == << "reply1", "reply2", "reply3", "reply4" >>

QueryConfigs == { cfg \in Configs : cfg.checksum \in { "xor", "crc32", Null }
                                     /\ cfg.chunkSize = 1024 /\ cfg.sofByte = None }

InitQuery ==
    \E cfg \in QueryConfigs, serverPeer \in Peers :
        /\ eng = [client |-> [Configured(TinyFrame(cfg.peer), cfg)
                                 EXCEPT !.write = "server"],
                  server |-> addGenericListener(
                                 [Configured(TinyFrame(serverPeer), cfg)
                                     EXCEPT !.write = "client"], Responder)]
        /\ wire = << >>
        /\ log = << >>
        /\ app = [queries |-> << >>, responded |-> << >>]

Called == Len(app.queries) + Len(app.responded)

\* client.query(new Message(type, data), listener)
Query(type, data) ==
    /\ Called < MaxCalls
    /\ FitsField(type, eng.client.typeSize)
    /\ \E r \in { query(World, "client", Message(type, data),
                        Record(ReplyNames[Len(app.queries) + 1]), None) } :
           /\ Becomes(r.w)
           /\ app' = [app EXCEPT !.queries =
                        Append(@, [m |-> r.m,
                                   listener |-> ReplyNames[Len(app.queries) + 1]])]

\* server.respond(message), called by the application with a message whose
\* response flag is set (as createResponse leaves it) or not
RespondTo(isResponse) ==
    /\ Called < MaxCalls
    /\ \E message \in { [Message(FromNat(34), << 7 >>)
                            EXCEPT !.frameID = FromNat(5), !.isResponse = isResponse] } :
       \E r \in { respond(World, "server", message) } :
           /\ Becomes(r.w)
           /\ app' = [app EXCEPT !.responded =
                        Append(@, [before |-> message, after |-> r.m])]

NextQuery ==
    \/ \E type \in Types, data \in Payloads : Query(type, data)
    \/ \E isResponse \in BOOLEAN : RespondTo(isResponse)

SpecQuery == InitQuery /\ [][NextQuery]_vars

(* ---- SpecListen: listeners are registered on rx, tx writes into rx ---- *)
(* (test 3).  tx sends frames with a chosen ID: response-flagged messages,   *)
(* whose frameID composeHead reuses.  The log holds the last frame's calls.  *)

ListenerNames == << "a", "b", "c", "d", "e", "f", "g", "h" >>
ListenIDs   == { FromNat(1), FromNat(2) }
ListenTypes == { FromNat(34), Num(32768, 0) }               \* 0x22, 0x80000000
FrameTypes  == { FromNat(34), FromNat(35), Num(32768, 0) }

ListenConfigs == { cfg \in Configs : cfg.checksum = "xor" /\ cfg.peer = 0
                                      /\ cfg.chunkSize = 1024 /\ cfg.sofByte = None }

Linked(cfg) ==
    [tx |-> [Configured(TinyFrame(cfg.peer), cfg) EXCEPT !.write = "rx"],
     rx |-> Configured(TinyFrame(cfg.peer), cfg)]

\* a frame with this ID and type, as tx sends it
Reply(id, type) == [Message(type, << 7 >>) EXCEPT !.frameID = id, !.isResponse = TRUE]

InitListen ==
    /\ \E cfg \in ListenConfigs : eng = Linked(cfg)
    /\ wire = << >>
    /\ log = << >>
    /\ app = [added |-> 0, last |-> None]

\* rx.addIDListener(id, callback), by a callback not registered before
AddID(id) ==
    /\ app.added < MaxListeners
    /\ eng' = [eng EXCEPT !.rx = addIDListener(@, id,
                                Record(ListenerNames[app.added + 1]), None)]
    /\ log' = << >>
    /\ app' = [added |-> app.added + 1, last |-> None]
    /\ UNCHANGED wire

\* rx.addTypeListener(type, callback)
AddType(type) ==
    /\ app.added < MaxListeners
    /\ eng' = [eng EXCEPT !.rx = addTypeListener(@, type,
                                Record(ListenerNames[app.added + 1]))]
    /\ log' = << >>
    /\ app' = [added |-> app.added + 1, last |-> None]
    /\ UNCHANGED wire

\* rx.addGenericListener(callback)
AddGeneric ==
    /\ app.added < MaxListeners
    /\ eng' = [eng EXCEPT !.rx = addGenericListener(@,
                                Record(ListenerNames[app.added + 1]))]
    /\ log' = << >>
    /\ app' = [added |-> app.added + 1, last |-> None]
    /\ UNCHANGED wire

\* tx.send of a frame, which rx accepts and dispatches on the same stack
Receive(id, type) ==
    /\ FitsField(type, eng.tx.typeSize)
    /\ \E r \in { send([World EXCEPT !.log = << >>], "tx", Reply(id, type)) } :
           /\ Becomes(r.w)
           /\ app' = [app EXCEPT !.last =
                        Some([m |-> r.m,
                              idListeners |-> eng.rx.idListeners,
                              typeListeners |-> eng.rx.typeListeners,
                              genericListeners |-> eng.rx.genericListeners])]

NextListen ==
    \/ \E id \in ListenIDs : AddID(id)
    \/ \E type \in ListenTypes : AddType(type)
    \/ AddGeneric
    \/ \E id \in ListenIDs, type \in FrameTypes : Receive(id, type)

SpecListen == InitListen /\ [][NextListen]_vars

(* ---- SpecExpiry: ID listeners with timeouts on rx, ticks, renewals ----- *)

Timeouts  == { None, Some(1), Some(2) }
ExpiryIDs == { FromNat(0), FromNat(1), Num(32768, 0) }     \* 0, 1, 0x80000000

\* as in test 3, neither engine has a checksum; the default field sizes
ExpiryConfigs == { [cfg EXCEPT !.checksum = Null] :
                       cfg \in { c \in ListenConfigs : c.sizes = << 4, 4, 4 >> } }

InitExpiry ==
    /\ \E cfg \in ExpiryConfigs : eng = Linked(cfg)
    /\ wire = << >>
    /\ log = << >>
    /\ app = [added |-> << >>, ticks |-> 0, last |-> None, before |-> None]

\* what the application knows of a registration: its callback, ID and timeout,
\* the ticks since, and whether it was renewed
Pending(id, timeout) ==
    [name |-> ListenerNames[Len(app.added) + 1], id |-> id, timeout |-> timeout,
     age |-> 0, renewed |-> FALSE]

\* rx.addIDListener(id, callback, timeout)
Register(id, timeout) ==
    /\ Len(app.added) < MaxPending
    /\ eng' = [eng EXCEPT !.rx = addIDListener(@, id,
                                Record(ListenerNames[Len(app.added) + 1]), timeout)]
    /\ log' = << >>
    /\ app' = [app EXCEPT !.added = Append(@, Pending(id, timeout)),
                          !.last = None, !.before = None]
    /\ UNCHANGED wire

\* rx.query(message, callback, timeout); what rx writes goes nowhere
Ask(timeout) ==
    /\ Len(app.added) < MaxPending
    /\ \E r \in { query([World EXCEPT !.log = << >>], "rx", Message(FromNat(34), << 7 >>),
                        Record(ListenerNames[Len(app.added) + 1]), timeout) } :
           /\ eng' = r.w.eng
           /\ log' = << >>
           /\ app' = [app EXCEPT !.added = Append(@, Pending(r.m.frameID, timeout)),
                                 !.last = None, !.before = None]
    /\ UNCHANGED wire

\* rx.renewIDListener(callback) for the k-th registered callback; the
\* application renews once at most
Renew(k) ==
    /\ k \in DOMAIN app.added
    /\ \A j \in DOMAIN app.added : ~app.added[j].renewed
    /\ eng' = [eng EXCEPT !.rx = renewIDListener(@, Record(app.added[k].name))]
    /\ log' = << >>
    /\ app' = [app EXCEPT !.added[k].renewed = TRUE, !.last = None, !.before = None]
    /\ UNCHANGED wire

\* rx.tick()
Tick ==
    /\ app.ticks < MaxTicks
    /\ eng' = [eng EXCEPT !.rx = tick(@)]
    /\ log' = << >>
    /\ app' = [app EXCEPT !.added = [k \in DOMAIN app.added |->
                                        [app.added[k] EXCEPT !.age = @ + 1]],
                          !.ticks = @ + 1, !.last = None,
                          !.before = Some(eng.rx.idListeners)]
    /\ UNCHANGED wire

\* a frame with this ID reaches rx
Arrive(id) ==
    \E r \in { send([World EXCEPT !.log = << >>], "tx", Reply(id, FromNat(34))) } :
        /\ Becomes(r.w)
        /\ app' = [app EXCEPT !.last = Some(r.m), !.before = None]

NextExpiry ==
    \/ \E id \in { FromNat(1), Num(32768, 0) }, timeout \in Timeouts :
          Register(id, timeout)
    \/ \E timeout \in { Some(1) } : Ask(timeout)
    \/ \E k \in { 1 } : Renew(k)
    \/ Tick
    \/ \E id \in ExpiryIDs : Arrive(id)

SpecExpiry == InitExpiry /\ [][NextExpiry]_vars

(* ---- SpecPeer: a peer-0 and a peer-1 engine allocate IDs independently - *)

PeerConfigs == { cfg \in Configs : cfg.checksum = Null /\ cfg.sizes = << 1, 1, 1 >>
                                    /\ cfg.chunkSize = 1024 /\ cfg.sofByte = None }

InitPeer ==
    /\ \E master \in { cfg \in PeerConfigs : cfg.peer = 0 },
          slave \in { cfg \in PeerConfigs : cfg.peer = 1 } :
          eng = [master |-> Configured(TinyFrame(master.peer), master),
                 slave  |-> Configured(TinyFrame(slave.peer), slave)]
    /\ wire = << >>
    /\ log = << >>
    /\ app = [ids |-> [master |-> {}, slave |-> {}],
              sends |-> [master |-> 0, slave |-> 0]]

\* e.send(new Message(0x22, [7])): the ID field of the frame on the wire is
\* noted, the frame itself dropped
Post(e) ==
    /\ app.sends[e] < MaxSends
    /\ \E r \in { send(World, e, Message(FromNat(34), << 7 >>)) } :
           /\ eng' = r.w.eng
           /\ app' = [app EXCEPT !.ids[e] = @ \cup { SubSeq(Flat(r.w.wire), 1,
                                                            eng[e].idSize) },
                                 !.sends[e] = @ + 1]
    /\ UNCHANGED << wire, log >>

NextPeer == \E e \in { "master", "slave" } : Post(e)

SpecPeer == InitPeer /\ [][NextPeer]_vars

(* ------------------------- claims under Spec -------------------------- *)

\* one frame has been sent and every byte of it has been delivered to rx
OneFrameDelivered == Len(app.sent) = 1 /\ wire = << >>

\* rx dispatched exactly once, and the Message it dispatched
DispatchedOnce == Len(Calls("rx")) = 1
Dispatched == Calls("rx")[1].msg

\* the bytes of a frame before its payload
HeaderLength(E) ==
    (IF E.sofByte # None THEN 1 ELSE 0) + E.idSize + E.lenSize + E.typeSize + CksumSize(E)

(* C1: with an active checksum strategy and a non-empty payload, the chunks  *)
(* tx.send(m) wrote, fed to rx, cause exactly one dispatch, of a Message     *)
(* with m's type, m's data and the frameID send stamped into m, and rx ends  *)
(* in parser state 'sof'.                                                    *)
C1_RoundTripActive ==
    (OneFrameDelivered /\ eng.tx.checksum # Null /\ app.sent[1].m.data # << >>) =>
        /\ DispatchedOnce
        /\ Dispatched.type = app.sent[1].m.type
        /\ Dispatched.data = app.sent[1].m.data
        /\ Dispatched.frameID = app.sent[1].m.frameID
        /\ eng.rx.state = "sof"

(* C2: with checksum = null (with or without a sofByte) and a non-empty      *)
(* payload, rx dispatches exactly one Message whose data is exactly m.data   *)
(* and whose type and frameID are those stamped by send.                     *)
C2_RoundTripNone ==
    (OneFrameDelivered /\ eng.tx.checksum = Null /\ app.sent[1].m.data # << >>) =>
        /\ DispatchedOnce
        /\ Dispatched.data = app.sent[1].m.data
        /\ Dispatched.type = app.sent[1].m.type
        /\ Dispatched.frameID = app.sent[1].m.frameID

(* C3: an empty payload goes on the wire as a header with LEN = 0 and no     *)
(* payload checksum, and rx dispatches exactly one Message, with empty data, *)
(* when the header is complete, and is back in 'sof'.                        *)
C3_ZeroLength ==
    (OneFrameDelivered /\ app.sent[1].m.data = << >>) =>
        /\ Len(app.sent[1].frame) = HeaderLength(eng.tx)
        /\ DispatchedOnce
        /\ Dispatched.data = << >>
        /\ eng.rx.state = "sof"

(* ----------------------- claims under SpecNoise ----------------------- *)

\* the number of bytes of the first frame after which the checksum covering
\* the changed byte is complete
DetectedAt ==
    IF app.flipped[1] <= HeaderLength(eng.rx)
    THEN HeaderLength(eng.rx) ELSE Len(app.sent[1].frame)

C6_NextFrameDispatched ==
    (app.flipped # None /\ Len(app.sent) = 2 /\ wire = << >>
        /\ app.sent[2].m.data # << >>) =>
        Cardinality({ i \in DOMAIN Calls("rx") :
                        Calls("rx")[i].msg = app.sent[2].m }) = 1

(* ----------------------- claims under SpecQuery ----------------------- *)

\* what the responding server listener saw: the request and its response
Responded == SelectSeq(log, LAMBDA l : l.ev = "responded")

\* the server answered the request of query q
Answered(q) == \E i \in DOMAIN Responded : Responded[i].req.frameID = q.m.frameID

\* the frames the server wrote (one chunk each, no start byte configured)
ServerWrites == SelectSeq(log, LAMBDA l : l.ev = "write" /\ l.eng = "server")

(* C4: for every combination of peer roles, when the client queries and a    *)
(* server listener answers with respond(request.createResponse(data)), the   *)
(* response keeps the request's frameID (and is transmitted with it), and    *)
(* the client's query listener is invoked exactly once, with a Message whose *)
(* frameID is m.frameID.                                                     *)
C4_ResponseCorrelation ==
    /\ \A i \in DOMAIN Responded : Responded[i].resp.frameID = Responded[i].req.frameID
    /\ app.responded = << >> =>
          \A i \in DOMAIN Responded :
              SubSeq(ServerWrites[i].chunk, 1, eng.server.idSize)
                  = WriteUIntBE(Responded[i].req.frameID, eng.server.idSize)
    /\ \A i \in DOMAIN app.queries :
          Answered(app.queries[i]) =>
              \E j \in DOMAIN Calls("client") :
                  /\ Calls("client")[j].cb = app.queries[i].listener
                  /\ Calls("client")[j].msg.frameID = app.queries[i].m.frameID
                  /\ \A k \in DOMAIN Calls("client") :
                        Calls("client")[k].cb = app.queries[i].listener => k = j

(* C7: after respond(message) returns, message.isResponse has the value it   *)
(* had before the call.                                                      *)
C7_RespondRestoresFlag ==
    \A i \in DOMAIN app.responded :
        app.responded[i].after.isResponse = app.responded[i].before.isResponse

(* ----------------------- claims under SpecListen ---------------------- *)

\* the callbacks rx invoked for the last frame, in order
Invoked == [i \in DOMAIN Calls("rx") |-> Calls("rx")[i].cb]

CallbackNames(listeners) == [i \in DOMAIN listeners |-> listeners[i].callback.name]

\* the registered entries a frame matches, table by table
MatchingID(last)   == SelectSeq(last.idListeners, LAMBDA l : l.id = last.m.frameID)
MatchingType(last) == SelectSeq(last.typeListeners, LAMBDA l : l.type = last.m.type)

\* the ID and type of the frame are values below 2^31
BelowSignBit(m) == m.frameID.hi < 32768 /\ m.type.hi < 32768

(* C8: for every validated inbound frame the ID listeners whose id is the    *)
(* frame's ID are invoked first, then the type listeners whose type is the   *)
(* frame's type, then every generic listener; each matching entry exactly    *)
(* once, all entries sharing an id or type, and no entry that does not match.*)
C8_FanOutOrder ==
    app.last # None =>
        Invoked = CallbackNames(MatchingID(app.last[1]))
                     \o CallbackNames(MatchingType(app.last[1]))
                     \o [i \in DOMAIN app.last[1].genericListeners |->
                            app.last[1].genericListeners[i].name]

\* the same for frames whose ID and type are below 2^31
FanOutOrderBelowSignBit ==
    (app.last # None /\ BelowSignBit(app.last[1].m)) => C8_FanOutOrder

(* ----------------------- claims under SpecExpiry ---------------------- *)

InRegistry(name) ==
    \E i \in DOMAIN eng.rx.idListeners : eng.rx.idListeners[i].callback.name = name

WasInvoked(name) == \E i \in DOMAIN Calls("rx") : Calls("rx")[i].cb = name

\* the entries of a registry that a tick keeps, counted down
Survivors(listeners) ==
    SelectSeq([i \in DOMAIN listeners |->
                  IF listeners[i].timeout = None THEN listeners[i]
                  ELSE [listeners[i] EXCEPT !.timeout = Some(listeners[i].timeout[1] - 1)]],
              LAMBDA l : l.timeout = None \/ l.timeout[1] > 0)

(* C9: an ID listener registered (by addIDListener or query) with timeout    *)
(* T >= 1 and never renewed is in the registry, and invoked for a matching   *)
(* frame, exactly while fewer than T ticks have happened since registration; *)
(* tick() removes exactly the ID listeners whose countdown reached zero or   *)
(* below, several in one tick too, and keeps the others in their order.      *)
C9_ListenerExpiry ==
    /\ \A k \in DOMAIN app.added :
          (app.added[k].timeout # None /\ ~app.added[k].renewed) =>
              /\ InRegistry(app.added[k].name) <=> app.added[k].age < app.added[k].timeout[1]
              /\ app.last # None =>
                    (WasInvoked(app.added[k].name) <=>
                        /\ app.added[k].id = app.last[1].frameID
                        /\ app.added[k].age < app.added[k].timeout[1])
    /\ app.before # None => eng.rx.idListeners = Survivors(app.before[1])

\* the same for listeners whose id is below 2^31
ListenerExpiryBelowSignBit ==
    /\ \A k \in DOMAIN app.added :
          (app.added[k].timeout # None /\ ~app.added[k].renewed
              /\ app.added[k].id.hi < 32768) =>
              /\ InRegistry(app.added[k].name) <=> app.added[k].age < app.added[k].timeout[1]
              /\ app.last # None =>
                    (WasInvoked(app.added[k].name) <=>
                        /\ app.added[k].id = app.last[1].frameID
                        /\ app.added[k].age < app.added[k].timeout[1])
    /\ app.before # None => eng.rx.idListeners = Survivors(app.before[1])

(* ------------------------ claims under SpecPeer ----------------------- *)

\* bit idSize*8-1 of an ID field as written, most significant byte first
HighBit(field) == field[1] >= 128

(* C10: after any number of non-response sends on each side, no ID field the *)
(* peer-0 engine wrote equals one the peer-1 engine wrote: every ID of peer  *)
(* 1 has bit idSize*8-1 set and every ID of peer 0 has it clear.             *)
C10_PeerIDSeparation ==
    /\ app.ids.master \cap app.ids.slave = {}
    /\ \A field \in app.ids.slave : HighBit(field)
    /\ \A field \in app.ids.master : ~HighBit(field)

(* ---- SpecStall: rx has a parser timeout; ticks, frames, lost bytes ---- *)

MaxStallTicks == 3
ParserTimeouts == { 0, 1 }

StallConfigs == { cfg \in Configs : cfg.checksum = "xor" /\ cfg.peer = 0
                                     /\ cfg.sizes = << 1, 1, 1 >>
                                     /\ cfg.chunkSize = 1024 }

InitStall ==
    \E cfg \in StallConfigs, n \in ParserTimeouts :
        /\ eng = [tx |-> Configured(TinyFrame(cfg.peer), cfg),
                  rx |-> [addGenericListener(Configured(TinyFrame(cfg.peer), cfg),
                                             Record("generic"))
                             EXCEPT !.parserTimeout = Some(n)]]
        /\ wire = << >>
        /\ log = << >>
        /\ app = [sent |-> << >>, fed |-> 0, whole |-> TRUE, tickedAt |-> -1]

\* tx.send(new Message(type, data)) once the transport has nothing left of
\* the frame before; the application notes the parser state rx is in
Transmit(type, data) ==
    /\ Len(app.sent) < MaxFrames
    /\ wire = << >>
    /\ \E r \in { send(World, "tx", Message(type, data)) } :
           /\ Becomes(r.w)
           /\ app' = [app EXCEPT !.sent = Append(@, [m |-> r.m, at |-> app.fed,
                                                    state |-> eng.rx.state]),
                                 !.whole = TRUE]

\* the stream stalls: the bytes of the frame not yet delivered never arrive
Stall ==
    /\ wire # << >>
    /\ app.fed > app.sent[Len(app.sent)].at
    /\ wire' = << >>
    /\ app' = [app EXCEPT !.whole = FALSE]
    /\ UNCHANGED << eng, log >>

\* rx.tick()
StallTick ==
    /\ eng.rx.parserTimeoutTicks < MaxStallTicks
    /\ eng' = [eng EXCEPT !.rx = tick(@)]
    /\ app' = [app EXCEPT !.tickedAt = app.fed]
    /\ UNCHANGED << wire, log >>

NextStall ==
    \/ \E type \in { FromNat(34) }, data \in { << 7 >>, << 222, 173 >> } :
          Transmit(type, data)
    \/ Stall
    \/ StallTick
    \/ DeliverByte

SpecStall == InitStall /\ [][NextStall]_vars

(* ----------------------- claims under SpecStall ----------------------- *)

LastSent == app.sent[Len(app.sent)]

\* every byte of the last frame has been fed to rx, with no tick() after its
\* first byte
FedWithoutTick == wire = << >> /\ app.whole /\ app.tickedAt <= LastSent.at

\* rx was between frames when the last frame began, or the frame before it
\* had stalled and more than parserTimeout ticks have been counted
StartsClean ==
    \/ LastSent.state = "sof"
    \/ eng.rx.parserTimeoutTicks > eng.rx.parserTimeout[1]

(* C11: with parserTimeout = N the parser is reset only when more than N     *)
(* ticks elapsed without completing the frame in progress: a well-formed     *)
(* frame whose bytes are all fed with no tick() between them, to a parser    *)
(* that is between frames or whose stalled partial frame is reset, is        *)
(* dispatched exactly once, with its type, data and frameID, however many    *)
(* ticks rx has counted before the frame's first byte.                       *)
C11_StallDoesNotBlock ==
    (app.sent # << >> /\ FedWithoutTick /\ StartsClean) =>
        Cardinality({ i \in DOMAIN Calls("rx") : Calls("rx")[i].msg = LastSent.m }) = 1

\* the same while rx has counted no more than parserTimeout ticks
StallDoesNotBlockEarly ==
    (app.sent # << >> /\ FedWithoutTick /\ LastSent.state = "sof"
        /\ eng.rx.parserTimeoutTicks <= eng.rx.parserTimeout[1]) =>
        Cardinality({ i \in DOMAIN Calls("rx") : Calls("rx")[i].msg = LastSent.m }) = 1

(* ------------------ more claims under SpecQuery ----------------------- *)

\* an ID field as the parser accumulates it: (currentID << 8) | byte per byte
RECURSIVE Accumulated(_)
Accumulated(field) ==
    IF field = << >> THEN Zero
    ELSE ShlOr8(Accumulated(SubSeq(field, 1, Len(field) - 1)), field[Len(field)])

\* the server wrote, into the client's accept, a frame carrying the ID of q
RepliedTo(q) ==
    \E j \in DOMAIN ServerWrites :
        Accumulated(SubSeq(ServerWrites[j].chunk, 1, eng.server.idSize)) = q.m.frameID

\* the client invoked the listener of q with a Message carrying q's ID
Resolved(q) ==
    \E j \in DOMAIN Calls("client") :
        /\ Calls("client")[j].cb = q.listener
        /\ Calls("client")[j].msg.frameID = q.m.frameID

(* C12: query registers the listener under the ID stamped into               *)
(* message.frameID before the first write: the registry holds the listener   *)
(* under that ID, and when the write sink synchronously feeds a reply        *)
(* carrying that ID back into the client's accept during the query call,     *)
(* the listener is invoked for it.                                           *)
C12_QueryRegistersFirst ==
    \A i \in DOMAIN app.queries :
        /\ \E k \in DOMAIN eng.client.idListeners :
              /\ eng.client.idListeners[k].callback.name = app.queries[i].listener
              /\ eng.client.idListeners[k].id = app.queries[i].m.frameID
        /\ RepliedTo(app.queries[i]) => Resolved(app.queries[i])

C12_Witness ==
    \E i \in DOMAIN app.queries :
        /\ RepliedTo(app.queries[i])
        /\ Resolved(app.queries[i])
        /\ app.queries[i].m.frameID.hi < 0

(* ---- SpecChunks: one byte stream, fed in chunks and byte by byte ------ *)

MaxStream == 8
MaxChunk == 3
StreamBytes == { 0, 1 }

\* the byte sequences of a length
RECURSIVE Buffers(_)
Buffers(n) ==
    IF n = 0 THEN { << >> }
    ELSE { << b >> \o rest : b \in StreamBytes, rest \in Buffers(n - 1) }

ChunkConfigs == { cfg \in Configs : cfg.checksum \in { "xor", Null } /\ cfg.peer = 0
                                     /\ cfg.sizes = << 1, 1, 1 >>
                                     /\ cfg.chunkSize = 1024 }

InitChunks ==
    \E cfg \in ChunkConfigs :
        /\ eng = [chunked  |-> addGenericListener(Configured(TinyFrame(cfg.peer), cfg),
                                                  Record("generic")),
                  bytewise |-> addGenericListener(Configured(TinyFrame(cfg.peer), cfg),
                                                  Record("generic"))]
        /\ wire = << >>
        /\ log = << >>
        /\ app = [behind |-> << >>, fed |-> 0, mid |-> FALSE]

\* chunked.accept(chunk): the next bytes of the stream arrive as one buffer
AcceptChunk(chunk) ==
    /\ app.behind = << >>
    /\ app.fed + Len(chunk) <= MaxStream
    /\ Becomes(accept(World, "chunked", chunk))
    /\ app' = [behind |-> chunk, fed |-> app.fed + Len(chunk),
               mid |-> app.mid \/ (Len(chunk) > 1 /\ eng.chunked.state # "sof")]

\* bytewise.acceptByte(byte): the same bytes arrive one call at a time
AcceptOne ==
    /\ app.behind # << >>
    /\ Becomes(acceptByte(World, "bytewise", Head(app.behind)))
    /\ app' = [app EXCEPT !.behind = Tail(@)]

NextChunks ==
    \/ \E n \in 1..MaxChunk : \E chunk \in Buffers(n) : AcceptChunk(chunk)
    \/ AcceptOne

SpecChunks == InitChunks /\ [][NextChunks]_vars

(* ----------------------- claims under SpecChunks ---------------------- *)

\* the Messages an engine dispatched, in order
DispatchedBy(e) == [i \in DOMAIN Calls(e) |-> Calls(e)[i].msg]

(* C13: whatever the byte sequence and however it is split into chunks, once *)
(* accept has been fed the chunks and acceptByte the same bytes one at a     *)
(* time, from the same starting state and with no tick() in between, the     *)
(* same Messages have been dispatched in the same order and the parser is in *)
(* the same state (every field of the engine is the same).                   *)
C13_ChunkBoundaries ==
    app.behind = << >> =>
        /\ DispatchedBy("chunked") = DispatchedBy("bytewise")
        /\ eng.chunked = eng.bytewise

C13_Witness ==
    /\ app.behind = << >>
    /\ app.mid
    /\ eng.chunked.state \notin { "sof", "id" }
    /\ DispatchedBy("chunked") # << >>
    /\ DispatchedBy("chunked") = DispatchedBy("bytewise")

(* ---- SpecReconfig: the configuration changes while frames arrive ------ *)

ReconfigConfigs == { cfg \in Configs : cfg.checksum \in { "xor", "crc16" } /\ cfg.peer = 0
                                        /\ cfg.chunkSize = 1024 /\ cfg.sofByte = None }

InitReconfig ==
    \E cfg \in ReconfigConfigs :
        /\ eng = [tx |-> Configured(TinyFrame(cfg.peer), cfg),
                  rx |-> addGenericListener(Configured(TinyFrame(cfg.peer), cfg),
                                            Record("generic"))]
        /\ wire = << >>
        /\ log = << >>
        /\ app = [sent |-> << >>, fed |-> 0, changed |-> None, inFlight |-> FALSE]

\* tx.checksum = rx.checksum = c, once, at any point of the stream
SetChecksum(c) ==
    /\ app.changed = None
    /\ c # eng.rx.checksum
    /\ eng' = [eng EXCEPT !.tx.checksum = c, !.rx.checksum = c]
    /\ app' = [app EXCEPT !.changed = Some(app.fed), !.inFlight = wire # << >>]
    /\ UNCHANGED << wire, log >>

\* the three field widths of tx and rx are set to others, once
SetSizes(sizes) ==
    /\ app.changed = None
    /\ sizes # << eng.rx.idSize, eng.rx.lenSize, eng.rx.typeSize >>
    /\ eng' = [eng EXCEPT !.tx.idSize = sizes[1], !.tx.lenSize = sizes[2],
                          !.tx.typeSize = sizes[3],
                          !.rx.idSize = sizes[1], !.rx.lenSize = sizes[2],
                          !.rx.typeSize = sizes[3]]
    /\ app' = [app EXCEPT !.changed = Some(app.fed), !.inFlight = wire # << >>]
    /\ UNCHANGED << wire, log >>

NextReconfig ==
    \/ \E type \in { FromNat(34) }, data \in { << 7 >>, << 222, 173 >> } : Send(type, data)
    \/ \E c \in Checksums : SetChecksum(c)
    \/ \E sizes \in FieldSizes : SetSizes(sizes)
    \/ DeliverByte

SpecReconfig == InitReconfig /\ [][NextReconfig]_vars

(* ---------------------- claims under SpecReconfig --------------------- *)

\* every byte of the i-th frame has been fed to rx
FullyFed(i) == app.fed >= app.sent[i].at + Len(app.sent[i].frame)

\* rx dispatched the i-th frame exactly once, as it was sent
DispatchedAsSent(i) ==
    Cardinality({ j \in DOMAIN Calls("rx") : Calls("rx")[j].msg = app.sent[i].m }) = 1

\* the configuration changed after the first and before the last byte of the
\* i-th frame had been fed
ChangedDuring(i) ==
    /\ app.changed # None
    /\ app.changed[1] > app.sent[i].at
    /\ app.changed[1] < app.sent[i].at + Len(app.sent[i].frame)

(* C14: when the checksum strategy or a field width is changed while rx is   *)
(* in the middle of a frame, that frame is still parsed and validated under  *)
(* the configuration it began with (it is dispatched as it was sent), and    *)
(* the parser is not stuck: it is back in 'sof' at the frame's last byte.    *)
C14_ReconfigureMidFrame ==
    \A i \in DOMAIN app.sent :
        (ChangedDuring(i) /\ FullyFed(i)) =>
            /\ DispatchedAsSent(i)
            /\ app.fed = app.sent[i].at + Len(app.sent[i].frame) => eng.rx.state = "sof"

\* frames are dispatched as sent while the configuration is not changed, and
\* after a change to another active strategy or to other field widths that is
\* made while no frame is on its way
ReconfigureBetweenFrames ==
    \A i \in DOMAIN app.sent :
        (FullyFed(i) /\ ~app.inFlight /\ eng.rx.checksum # Null) =>
            /\ DispatchedAsSent(i)
            /\ app.fed = app.sent[i].at + Len(app.sent[i].frame) => eng.rx.state = "sof"

(* ---- SpecSizeless: a strategy of size 0 beside checksum = null -------- *)

SizelessConfigs == { [cfg EXCEPT !.checksum = "none"] :
                        cfg \in { c \in Configs : c.checksum = Null /\ c.peer = 0
                                                   /\ c.chunkSize = 1024 } }

\* tx and the receiver sized have the strategy of size 0, the receiver
\* absent has checksum = null
InitSizeless ==
    \E cfg \in SizelessConfigs :
        /\ eng = [tx     |-> Configured(TinyFrame(cfg.peer), cfg),
                  sized  |-> addGenericListener(Configured(TinyFrame(cfg.peer), cfg),
                                                Record("generic")),
                  absent |-> addGenericListener(
                                 Configured(TinyFrame(cfg.peer),
                                            [cfg EXCEPT !.checksum = Null]),
                                 Record("generic"))]
        /\ wire = << >>
        /\ log = << >>
        /\ app = [sent |-> << >>, fed |-> 0]

\* the transport hands the next byte to both receivers
DeliverToBoth ==
    /\ wire # << >>
    /\ LET rest == IF Len(Head(wire)) = 1 THEN Tail(wire)
                   ELSE << Tail(Head(wire)) >> \o Tail(wire)
       IN  \E w1 \in { acceptByte([World EXCEPT !.wire = rest], "sized",
                                  Head(Head(wire))) } :
               Becomes(acceptByte(w1, "absent", Head(Head(wire))))
    /\ app' = [app EXCEPT !.fed = @ + 1]

NextSizeless ==
    \/ \E type \in Types, data \in Payloads : Send(type, data)
    \/ DeliverToBoth

SpecSizeless == InitSizeless /\ [][NextSizeless]_vars

(* ---------------------- claims under SpecSizeless --------------------- *)

(* C15: an engine whose checksum is a strategy of size 0 writes no header    *)
(* checksum and no payload checksum; its parser never enters 'headcksum' or  *)
(* 'datacksum'; and for the same bytes it has dispatched the same Messages   *)
(* as an engine with checksum = null.                                        *)
C15_SizeZeroIsNoChecksum ==
    /\ \A i \in DOMAIN app.sent :
          Len(app.sent[i].frame) =
              (IF eng.tx.sofByte # None THEN 1 ELSE 0) + eng.tx.idSize + eng.tx.lenSize
                  + eng.tx.typeSize + Len(app.sent[i].m.data)
    /\ eng.sized.state \notin { "headcksum", "datacksum" }
    /\ DispatchedBy("sized") = DispatchedBy("absent")

\* what the engine writes is as claimed
SizeZeroWritesNoChecksum ==
    \A i \in DOMAIN app.sent :
        Len(app.sent[i].frame) =
            (IF eng.tx.sofByte # None THEN 1 ELSE 0) + eng.tx.idSize + eng.tx.lenSize
                + eng.tx.typeSize + Len(app.sent[i].m.data)

(* ---------------------- more claims under Spec ------------------------ *)

\* the ID, LEN and TYPE bytes of a frame tx wrote, and its header checksum
FieldBytes(frame) ==
    LET sof == IF eng.tx.sofByte # None THEN 1 ELSE 0
    IN  SubSeq(frame, sof + 1, sof + eng.tx.idSize + eng.tx.lenSize + eng.tx.typeSize)

HeaderCksum(frame) ==
    SubSeq(frame, HeaderLength(eng.tx) - CksumSize(eng.tx) + 1, HeaderLength(eng.tx))

\* the header checksum tx wrote is the sum over the ID, LEN and TYPE bytes,
\* and the bytes rx has buffered when it compares are those bytes
HeaderWindow ==
    /\ \A i \in DOMAIN app.sent :
          HeaderCksum(app.sent[i].frame)
              = WriteUIntBE(Sum(eng.tx.checksum, FieldBytes(app.sent[i].frame)),
                            Size(eng.tx.checksum))
    /\ eng.rx.state = "headcksum" =>
          Len(eng.rx.data) = eng.rx.idSize + eng.rx.lenSize + eng.rx.typeSize

(* C16: with a sofByte and a checksum strategy configured, the header        *)
(* checksum composeHead writes is the strategy's sum over exactly the ID,    *)
(* LEN and TYPE bytes, and the bytes the parser sums in 'headcksum' are      *)
(* exactly the received ID, LEN and TYPE bytes; the SOF byte is in neither.  *)
C16_HeaderWindowExcludesSof ==
    (eng.tx.sofByte # None /\ eng.tx.checksum # Null) => HeaderWindow

\* the same with no sofByte configured
HeaderWindowWithoutSof ==
    (eng.tx.sofByte = None /\ eng.tx.checksum # Null) => HeaderWindow

\* the ID field of a frame tx wrote
IDField(frame) == SubSeq(FieldBytes(frame), 1, eng.tx.idSize)

\* the frameID send left in the message is an unsigned value of the ID field's
\* width, it is what the ID field on the wire holds, and a peer-1 engine has
\* set the field's highest bit
StampedOnWire(sent) ==
    /\ FitsField(sent.m.frameID, eng.tx.idSize)
    /\ IDField(sent.frame) = WriteUIntBE(sent.m.frameID, eng.tx.idSize)
    /\ eng.tx.peer = 1 => HighBit(IDField(sent.frame))

(* C17: after every non-response send the value written back into           *)
(* message.frameID is an unsigned integer in 0 .. 2^(idSize*8)-1 that equals *)
(* the big-endian ID field on the wire (for peer = 1 with bit idSize*8-1     *)
(* set), and the frameID of the Message the receiver reconstructs is that    *)
(* same unsigned value.                                                      *)
C17_StampedIDInField ==
    /\ \A i \in DOMAIN app.sent : StampedOnWire(app.sent[i])
    /\ (OneFrameDelivered /\ DispatchedOnce) =>
          /\ Dispatched.frameID = app.sent[1].m.frameID
          /\ FitsField(Dispatched.frameID, eng.rx.idSize)

\* the same for the engines whose IDs stay below 2^31: peer 0, or a 1-byte ID
StampedIDBelowSignBit ==
    (eng.tx.peer = 0 \/ eng.tx.idSize = 1) => C17_StampedIDInField

(* ---- SpecSend: send, query and respond of one engine, seen from its ---- *)
(* hooks and its write sink.  The log holds the events of the last call.     *)

MaxTransmits == 2

SendConfigs == { cfg \in [checksum : { "xor", "crc16", Null }, sizes : FieldSizes,
                          sofByte : SofBytes, peer : Peers, chunkSize : { 1, 3, 1024 }] :
                     cfg.peer = 1 }

InitSend ==
    \E cfg \in SendConfigs :
        /\ eng = [tx |-> Configured(TinyFrame(cfg.peer), cfg)]
        /\ wire = << >>
        /\ log = << >>
        /\ app = [calls |-> 0, last |-> None]

\* what a call leaves behind: the hooks' and the sink's events, the engine,
\* and the message object as passed and as left
Transmitted(kind, message, r) ==
    /\ eng' = r.w.eng
    /\ wire' = << >>
    /\ log' = r.w.log
    /\ app' = [calls |-> app.calls + 1,
               last |-> Some([kind |-> kind, before |-> message, after |-> r.m])]

\* tx.send(new Message(type, data))
SendOnce(type, data) ==
    /\ app.calls < MaxTransmits
    /\ FitsField(type, eng.tx.typeSize)
    /\ \E r \in { send([World EXCEPT !.log = << >>], "tx", Message(type, data)) } :
           Transmitted("send", Message(type, data), r)

\* tx.query(new Message(0x22, data), listener)
QueryOnce(data) ==
    /\ app.calls < MaxTransmits
    /\ \E r \in { query([World EXCEPT !.log = << >>], "tx", Message(FromNat(34), data),
                        Record(ReplyNames[app.calls + 1]), None) } :
           Transmitted("query", Message(FromNat(34), data), r)

\* tx.respond(message) for a message that carries a frame ID
RespondOnce(id, data) ==
    /\ app.calls < MaxTransmits
    /\ \E r \in { respond([World EXCEPT !.log = << >>], "tx",
                          [Message(FromNat(34), data) EXCEPT !.frameID = id]) } :
           Transmitted("respond", [Message(FromNat(34), data) EXCEPT !.frameID = id], r)

NextSend ==
    \/ \E type \in Types, data \in Payloads : SendOnce(type, data)
    \/ \E data \in Payloads : QueryOnce(data)
    \/ \E id \in ListenIDs, data \in Payloads : RespondOnce(id, data)

SpecSend == InitSend /\ [][NextSend]_vars

(* ------------------------ claims under SpecSend ----------------------- *)

\* the chunks the write sink was called with during the last call, in order
Written == [i \in 1..(Len(log) - 2) |-> log[i + 1].chunk]

\* the LEN field of a frame: the lenSize bytes after the ID field
LenField(frame) ==
    LET sof == IF eng.tx.sofByte # None THEN 1 ELSE 0
    IN  SubSeq(frame, sof + eng.tx.idSize + 1, sof + eng.tx.idSize + eng.tx.lenSize)

\* the TYPE field of a frame: the last typeSize bytes of ID, LEN and TYPE
TypeField(frame) ==
    SubSeq(FieldBytes(frame), eng.tx.idSize + eng.tx.lenSize + 1,
           eng.tx.idSize + eng.tx.lenSize + eng.tx.typeSize)

\* the bytes of a frame after its header
AfterHeader(frame) == SubSeq(frame, HeaderLength(eng.tx) + 1, Len(frame))

\* the payload, followed by its checksum when a strategy is active and the
\* payload is not empty
PayloadAndCksum(data) ==
    IF eng.tx.checksum # Null /\ data # << >>
    THEN data \o WriteUIntBE(Sum(eng.tx.checksum, data), Size(eng.tx.checksum))
    ELSE data

Forwarder == [name |-> "forward", does |-> "forward"]

LoopConfigs == { cfg \in Configs : cfg.checksum \in { "xor", "crc16" } /\ cfg.peer = 0
                                    /\ cfg.chunkSize = 1024 }

InitLoop ==
    \E cfg \in LoopConfigs, sink \in { "rx", "wire" } :
        /\ eng = [tx |-> Configured(TinyFrame(cfg.peer), cfg),
                  rx |-> addGenericListener(
                             addTypeListener([Configured(TinyFrame(cfg.peer), cfg)
                                                 EXCEPT !.write = sink],
                                             FromNat(34), Forwarder),
                             Record("generic"))]
        /\ wire = << >>
        /\ log = << >>
        /\ app = [sent |-> << >>, fed |-> 0, flipped |-> None]

NextLoop ==
    \/ \E data \in { << 7 >>, << 222, 173 >> } : Send(FromNat(34), data)
    \/ Deliver
    \/ DeliverByte

SpecLoop == InitLoop /\ [][NextLoop]_vars

(* ------------------------ claims under SpecLoop ----------------------- *)

\* rx dispatched the frame its forwarding listener sent for call j
ForwardDispatched(j) ==
    \E k \in DOMAIN Calls("rx") :
        /\ Calls("rx")[k].cb = "generic"
        /\ Calls("rx")[k].msg.type = ForwardType
        /\ Calls("rx")[k].msg.data = Calls("rx")[j].msg.data

(* C19: when a listener invoked for a completed frame causes a well-formed   *)
(* frame to be fed into the same engine's accept before it returns (the      *)
(* write sink is a loopback), those bytes are parsed as the start of a new   *)
(* frame and that frame is dispatched: it is not lost.                       *)
C19_ReentrantDelivery ==
    eng.rx.write = "rx" =>
        \A j \in DOMAIN Calls("rx") : Calls("rx")[j].cb = "forward" => ForwardDispatched(j)

\* the same frame is dispatched when it reaches rx after the listener returned
ForwardDispatchedLater ==
    (eng.rx.write = "wire" /\ wire = << >>) =>
        \A j \in DOMAIN Calls("rx") : Calls("rx")[j].cb = "forward" => ForwardDispatched(j)

(* ---- SpecMutate: listeners that add and remove listeners -------------- *)
(* rx holds listeners whose bodies change the listener tables; tx sends      *)
(* frames with ID 1 and type 0x22, which every registered entry matches.     *)

MaxRegistered == 3
MaxReceived == 2

Victim == Record("b")
Remover(name, table) == [name |-> name, does |-> "remove", table |-> table,
                         victim |-> Victim]
SelfRemover(name, table) == [name |-> name, does |-> "removeSelf", table |-> table]
Adder(name, table) == [name |-> name, does |-> "add", table |-> table, adds |-> "z"]

\* the registrations the application chooses from: the table and the callback
Registrations ==
    { << "id", Victim >>, << "type", Victim >>, << "generic", Victim >>,
      << "id", Remover("rm_id", "id") >>,
      << "generic", Remover("rm_generic", "generic") >>,
      << "id", Remover("rm_type_from_id", "type") >>,
      << "generic", Remover("rm_id_from_generic", "id") >>,
      << "id", SelfRemover("once_id", "id") >>,
      << "generic", SelfRemover("once_generic", "generic") >>,
      << "id", Adder("add_id", "id") >>,
      << "type", Adder("add_type", "type") >>,
      << "id", Adder("add_generic_from_id", "generic") >> }

MutateConfigs == { cfg \in ListenConfigs : cfg.sizes = << 1, 1, 1 >> }

\* the frame every registration is made for
Keyed == Reply(FromNat(1), FromNat(34))

InitMutate ==
    /\ \E cfg \in MutateConfigs : eng = Linked(cfg)
    /\ wire = << >>
    /\ log = << >>
    /\ app = [registered |-> {}, received |-> 0, last |-> None]

\* rx.addIDListener(1, callback), rx.addTypeListener(0x22, callback) or
\* rx.addGenericListener(callback), each registration once at most
RegisterIn(table, callback) ==
    /\ Cardinality(app.registered) < MaxRegistered
    /\ << table, callback >> \notin app.registered
    /\ eng' = [eng EXCEPT !.rx = Added(@, table, callback, Keyed)]
    /\ log' = << >>
    /\ app' = [app EXCEPT !.registered = @ \cup { << table, callback >> }, !.last = None]
    /\ UNCHANGED wire

\* tx.send of the frame, which rx accepts and dispatches on the same stack;
\* the application keeps rx as it was before the frame
ReceiveFrame ==
    /\ app.received < MaxReceived
    /\ \E r \in { send([World EXCEPT !.log = << >>], "tx", Keyed) } :
           /\ Becomes(r.w)
           /\ app' = [app EXCEPT !.received = @ + 1,
                                 !.last = Some([m |-> r.m, rx |-> eng.rx])]

NextMutate ==
    \/ \E reg \in Registrations : RegisterIn(reg[1], reg[2])
    \/ ReceiveFrame

SpecMutate == InitMutate /\ [][NextMutate]_vars

(* ----------------------- claims under SpecMutate ---------------------- *)

\* the callbacks of the entries of a table that match a message, in order
MatchingCallbacks(E, table, message) ==
    LET matching == SelectSeq(TableOf(E, table), LAMBDA l : Matches(table, l, message))
    IN  [i \in DOMAIN matching |->
            IF table = "generic" THEN matching[i] ELSE matching[i].callback]

\* the engine after the bodies of these listeners have run, in order
RECURSIVE AfterBodies(_, _, _)
AfterBodies(E, callbacks, message) ==
    IF callbacks = << >> THEN E
    ELSE AfterBodies(Mutated(E, Head(callbacks), message), Tail(callbacks), message)

\* rx when the iteration over its ID table began (before the frame), when the
\* iteration over its type table began, when that over its generic table
\* began, and after the last listener
AtID      == app.last[1].rx
AtType    == AfterBodies(AtID, MatchingCallbacks(AtID, "id", app.last[1].m),
                         app.last[1].m)
AtGeneric == AfterBodies(AtType, MatchingCallbacks(AtType, "type", app.last[1].m),
                         app.last[1].m)
AtEnd     == AfterBodies(AtGeneric, MatchingCallbacks(AtGeneric, "generic", app.last[1].m),
                         app.last[1].m)

Names(callbacks) == [i \in DOMAIN callbacks |-> callbacks[i].name]

(* C20: when listeners add or remove listeners during their invocation, the  *)
(* listeners invoked from each table for the current frame are exactly the   *)
(* matching entries that were in the table when its iteration began, each    *)
(* once and in order (an entry removed mid-dispatch is still invoked, an     *)
(* entry added to the table mid-dispatch is not), and afterwards the tables  *)
(* hold every addition and removal, which the next frame is dispatched by.   *)
C20_SnapshotDispatch ==
    app.last # None =>
        /\ Invoked = Names(MatchingCallbacks(AtID, "id", app.last[1].m))
                        \o Names(MatchingCallbacks(AtType, "type", app.last[1].m))
                        \o Names(MatchingCallbacks(AtGeneric, "generic", app.last[1].m))
        /\ eng.rx.idListeners = AtEnd.idListeners
        /\ eng.rx.typeListeners = AtEnd.typeListeners
        /\ eng.rx.genericListeners = AtEnd.genericListeners

\* a remover ran before its victim in the same table and the victim was still
\* invoked, once; an entry added to the table was not invoked for this frame
\* and is in the table afterwards
C20_Witness ==
    /\ app.last # None
    /\ \E i, j \in DOMAIN Invoked :
          /\ i < j
          /\ Invoked[i] = "rm_id"
          /\ Invoked[j] = "b"
          /\ \A k \in DOMAIN Invoked : Invoked[k] = "b" => k = j
    /\ \A i \in DOMAIN eng.rx.idListeners : eng.rx.idListeners[i].callback # Victim
    /\ \E i \in DOMAIN Invoked : Invoked[i] = "add_id"
    /\ \A i \in DOMAIN Invoked : Invoked[i] # "z"
    /\ \E i \in DOMAIN eng.rx.idListeners : eng.rx.idListeners[i].callback.name = "z"

(* ---- SpecTick: rx holds listeners of every kind and is ticked while ---- *)
(* ---- frames arrive byte by byte                                    ---- *)

MaxTickCalls == 2

TickConfigs == { cfg \in Configs : cfg.checksum = "xor" /\ cfg.peer = 0
                                    /\ cfg.sizes = << 1, 1, 1 >>
                                    /\ cfg.sofByte = Some(1)
                                    /\ cfg.chunkSize = 1024 }

\* rx has a type listener and a generic listener from the start; its parse
\* timeout is the default (none) or 0 ticks
InitTick ==
    \E cfg \in TickConfigs, n \in { None, Some(0) } :
        /\ eng = [tx |-> Configured(TinyFrame(cfg.peer), cfg),
                  rx |-> [addGenericListener(
                              addTypeListener(Configured(TinyFrame(cfg.peer), cfg),
                                              FromNat(34), Record("type")),
                              Record("generic"))
                             EXCEPT !.parserTimeout = n]]
        /\ wire = << >>
        /\ log = << >>
        /\ app = [sent |-> << >>, fed |-> 0, added |-> 0, ticks |-> 0, before |-> None]

\* rx.addIDListener(id, callback, timeout) with a callback of its own; the
\* k-th registration listens for ID k - 1
ListenFor(timeout) ==
    /\ app.added < MaxPending
    /\ eng' = [eng EXCEPT !.rx = addIDListener(@, FromNat(app.added),
                                               Record(ListenerNames[app.added + 1]),
                                               timeout)]
    /\ app' = [app EXCEPT !.added = @ + 1, !.before = None]
    /\ UNCHANGED << wire, log >>

\* rx.tick(); the application keeps what rx was when it called
TickOnce ==
    /\ app.ticks < MaxTickCalls
    /\ eng' = [eng EXCEPT !.rx = tick(@)]
    /\ app' = [app EXCEPT !.ticks = @ + 1,
                          !.before = Some([rx |-> eng.rx, fed |-> app.fed,
                                           sent |-> Len(app.sent)])]
    /\ UNCHANGED << wire, log >>

NextTick ==
    \/ \E type \in { FromNat(34) }, data \in { << 222, 173 >> } : Send(type, data)
    \/ \E timeout \in { None, Some(2) } : ListenFor(timeout)
    \/ TickOnce
    \/ DeliverByte

SpecTick == InitTick /\ [][NextTick]_vars

(* ------------------------ claims under SpecTick ------------------------ *)

\* the last step was rx.tick(): nothing was sent, fed or registered since
JustTicked ==
    /\ app.before # None
    /\ app.before[1].fed = app.fed
    /\ app.before[1].sent = Len(app.sent)

\* the ID listeners of table that were registered with timeout null
Unexpiring(table) == SelectSeq(table, LAMBDA l : l.maxTimeout = None)

\* the ID listeners of before whose callback is still registered in after
Kept(before, after) ==
    SelectSeq(before, LAMBDA l : \E j \in DOMAIN after : after[j].callback = l.callback)

\* the parser's state, partial-field counter, field accumulators and buffer
ParserOf(E) ==
    << E.state, E.partLen, E.currentID, E.len, E.currentType, E.cksum, E.data >>

\* what of an engine is neither parser state, listener table nor tick counter
SettingsOf(E) ==
    << E.peer, E.nextID, E.parserTimeout, E.sofByte, E.chunkSize, E.checksum,
       E.idSize, E.lenSize, E.typeSize, E.write >>

\* after is before with one tick() applied, as far as the frame of tick() goes
TickFrame(before, after) ==
    /\ after.typeListeners = before.typeListeners
    /\ after.genericListeners = before.genericListeners
    /\ Unexpiring(after.idListeners) = Unexpiring(before.idListeners)
    /\ LET kept == Kept(before.idListeners, after.idListeners)
       IN  /\ Len(kept) = Len(after.idListeners)
           /\ \A i \in DOMAIN kept :
                 /\ after.idListeners[i].id = kept[i].id
                 /\ after.idListeners[i].callback = kept[i].callback
                 /\ after.idListeners[i].maxTimeout = kept[i].maxTimeout
                 /\ after.idListeners[i].timeout =
                        IF kept[i].timeout = None THEN None
                        ELSE Some(kept[i].timeout[1] - 1)
    /\ ParserOf(after) = ParserOf(before)
    /\ after.parserTimeoutTicks = before.parserTimeoutTicks + 1
    /\ SettingsOf(after) = SettingsOf(before)

(* C21: a call of tick() leaves the type and the generic listeners as they  *)
(* were, keeps every ID listener registered with timeout null in its place, *)
(* leaves id, callback and maxTimeout of every ID listener it keeps, and    *)
(* leaves the parser's state, partLen, currentID, len, currentType, cksum   *)
(* and data; parserTimeoutTicks is one more and every non-null countdown it *)
(* keeps is one less.                                                       *)
C21_TickFrame ==
    JustTicked => TickFrame(app.before[1].rx, eng.rx)

\* tick() was called in the middle of a frame, past the parse timeout, with
\* an unexpiring listener, one that expired and one that counts on
C21_Witness ==
    /\ JustTicked
    /\ app.before[1].rx.state \notin { "sof" }
    /\ app.before[1].rx.data # << >>
    /\ app.before[1].rx.parserTimeout = Some(0)
    /\ eng.rx.parserTimeoutTicks > 1
    /\ Len(eng.rx.idListeners) < Len(app.before[1].rx.idListeners)
    /\ \E i, j \in DOMAIN eng.rx.idListeners :
          /\ i < j
          /\ eng.rx.idListeners[i].timeout = Some(1)
          /\ eng.rx.idListeners[j].timeout = None
    /\ app.before[1].rx.idListeners[1].timeout = Some(1)


=============================================================================
